---- MODULE Spec2Model ----
(***************************************************************************)
(* station_list.py: one run of the Mobi station lister.                    *)
(*                                                                         *)
(* main() parses the flags, downloads the map page, walks the page's       *)
(* scripts, feeds the markers of every Drupal.settings script to           *)
(* process_markers(), and then prints the statistics and the stations.     *)
(*                                                                         *)
(* Strings that the program indexes or slices (titles, references, names)  *)
(* are sequences of one-character strings; a script is a sequence of text  *)
(* fragments.  The page and the markers are inputs: each script and each   *)
(* marker is drawn when the loop that reads it reaches it.                 *)
(***************************************************************************)
EXTENDS Integers, Sequences, FiniteSets, TLC

VARIABLES
    pc,                      \* position in main()
    verbose, quiet,          \* args.verbose, args.quiet
    KNOWN_STATIONS,          \* the baseline of known stations (configuration)
    KNOWN_DISUSED_STATIONS,  \* the baseline of known disused stations
    stations,                \* dict: ref -> station data
    new_stations,            \* list of refs
    all_stations,            \* list of refs
    marker,                  \* loop variable of process_markers
    nmarkers,                \* markers read so far in this run
    nscripts,                \* scripts read so far in this run
    located,                 \* scripts so far that contained 'Drupal.settings'
    out,                     \* lines printed on stdout
    err                      \* lines printed on stderr

vars == <<pc, verbose, quiet, KNOWN_STATIONS, KNOWN_DISUSED_STATIONS, stations,
          new_stations, all_stations, marker, nmarkers, nscripts, located, out, err>>

\* ------------------------------------------------------------------ bounds
MaxMarkers == 2
MaxScripts == 1

\* ----------------------------------------------------------------- strings
\* The characters used, in code point order (Python compares str by code point).
CharOrder == <<" ", "-", "0", "1", "2", "7", "9", "A", "B">>

Ord(c) == CHOOSE i \in 1..Len(CharOrder) : CharOrder[i] = c

RECURSIVE StrLess(_, _)
StrLess(a, b) ==
    IF b = <<>> THEN FALSE
    ELSE IF a = <<>> THEN TRUE
    ELSE IF Head(a) = Head(b) THEN StrLess(Tail(a), Tail(b))
    ELSE Ord(Head(a)) < Ord(Head(b))

Range(s) == {s[i] : i \in 1..Len(s)}

\* sorted() of a set of strings (dict keys, the baseline).
RECURSIVE SortedSet(_)
SortedSet(S) ==
    IF S = {} THEN <<>>
    ELSE LET m == CHOOSE x \in S : \A y \in S : ~StrLess(y, x)
         IN  <<m>> \o SortedSet(S \ {m})

RECURSIVE Insert(_, _)
Insert(x, s) ==
    IF s = <<>> THEN <<x>>
    ELSE IF StrLess(x, Head(s)) THEN <<x>> \o s
    ELSE <<Head(s)>> \o Insert(x, Tail(s))

\* sorted() of a list of strings: duplicates are kept.
RECURSIVE SortedList(_)
SortedList(s) == IF s = <<>> THEN <<>> ELSE Insert(Head(s), SortedList(Tail(s)))

\* ------------------------------------------------------------------ inputs
Ref0001 == <<"0", "0", "0", "1">>
Ref0002 == <<"0", "0", "0", "2">>

\* References the baselines are drawn from.
RefPool == {Ref0001, Ref0002}
DisusedPool == {Ref0001}

Titles ==
    { <<"0", "0", "0", "1", " ", "A">>,      \* "0001 A"
      <<"0", "0", "0", "2", " ", "A">>,      \* "0002 A"
      <<"0", "9", "9", "7", " ", "A">>,      \* "0997 A"
      <<"-", "0", "0", "1", " ", "A">>,      \* "-001 A"
      <<"0", "0", "0", "1", "A", "B">>,      \* "0001AB"
      <<"A", "B", " ", "A", " ", "B">>,      \* "AB A B"
      <<"0", "0", "0", "2", " ">>,           \* "0002 "
      <<>>,                                  \* ""
      <<"0", "0", "0">>,                     \* "000"
      <<"0", "0", "0", "1">>,                \* "0001"
      <<"-", "0">> }                         \* "-0"

PoiTitles == { <<"0", "0", "0", "1", " ", "A">>, <<>> }

Operatives == {"1", "0"}
Capacities == {15}
Latitudes == {"49.28"}
Longitudes == {"-123.12"}

Markers ==
    [title : Titles, poi : {FALSE}, operative : Operatives,
     total_slots : Capacities, latitude : Latitudes, longitude : Longitudes]
    \cup
    [title : PoiTitles, poi : {TRUE}, operative : Operatives,
     total_slots : Capacities, latitude : Latitudes, longitude : Longitudes]

NoMarker == [title |-> <<>>, poi |-> TRUE, operative |-> "1",
             total_slots |-> 15, latitude |-> "49.28", longitude |-> "-123.12"]

\* Text fragments of a script.
PRE == "jQuery.extend(Drupal.settings, "
DS == "Drupal.settings = "
OBJ == "{\"markers\": [...]"
OBJOTHER == "{\"basePath\": \"/\""
JUNK == "var x;"
CLOSEW == "});"
CLOSE == "}"

Scripts ==
    { <<a, b, c>> : a \in {PRE, DS, JUNK}, b \in {OBJ, OBJOTHER, JUNK},
                    c \in {CLOSEW, CLOSE} }

\* ------------------------------------------------------- process_markers
Sentinel == <<"0", "0", "0", "0">>

\* The title test of process_markers: it reads title[0] and then, unless the
\* first character is a dash, title[4].
TitleRaises(title) ==
    \/ Len(title) = 0
    \/ (title[1] # "-" /\ Len(title) < 5)

\* "Permanent station": the title is "<ref> <name>".
IsPermanent(title) == title[1] # "-" /\ title[5] = " "

RefOf(title) == IF IsPermanent(title) THEN SubSeq(title, 1, 4) ELSE Sentinel

NameOf_FromSpace(title) ==
    IF IsPermanent(title) THEN SubSeq(title, 5, Len(title)) ELSE title

NameOf(title) ==
    IF IsPermanent(title) THEN SubSeq(title, 6, Len(title)) ELSE title

Disused(operative) == operative # "1"

StationData(m) ==
    [name      |-> NameOf(m.title),
     capacity  |-> m.total_slots,
     disused   |-> Disused(m.operative),
     latitude  |-> m.latitude,
     longitude |-> m.longitude]

StoreStation_Rebind(dict, ref, data) == [r \in {ref} |-> data]

\* stations[ref] = data
StoreStation(dict, ref, data) ==
    [r \in DOMAIN dict \cup {ref} |-> IF r = ref THEN data ELSE dict[r]]

IsTemporary_OnlyZero(ref) == ref = Sentinel

\* Temporary stations are left out of all_stations and new_stations.
IsTemporary(ref) ==
    ref \in {Sentinel, <<"0", "9", "9", "7">>, <<"1", "0", "0", "0">>}

IsNew_ActiveOnly(ref, disused, known, knownDisused) ==
    ~disused /\ ref \notin known

\* The test that appends ref to new_stations.
IsNew(ref, disused, known, knownDisused) ==
    \/ (~disused /\ ref \notin known)
    \/ (disused /\ ref \notin knownDisused)

Skipped_Never(m) == FALSE

\* A marker flagged as a point of interest is skipped.
Skipped(m) == m.poi

\* ------------------------------------------------------------ the report
zoom_level == 17

NoData == [name |-> <<>>, capacity |-> 0, disused |-> FALSE,
           latitude |-> "", longitude |-> ""]
NoLink == [mlat |-> "", mlon |-> "", zoom |-> 0, lat |-> "", lon |-> ""]

osm_link(latitude, longitude) ==
    [mlat |-> latitude, mlon |-> longitude, zoom |-> zoom_level,
     lat |-> latitude, lon |-> longitude]

\* One printed item: k is its kind.
Line(k, ref, n, list, data, link) ==
    [k |-> k, ref |-> ref, n |-> n, list |-> list, data |-> data, link |-> link]

Blank == Line("blank", <<>>, 0, <<>>, NoData, NoLink)

\* print_station: the reference, the metadata and the OSM link of one station.
print_station(ref, data) ==
    Line("station", ref, 0, <<>>, data, osm_link(data.latitude, data.longitude))

RECURSIVE StationLines(_, _, _, _)
StationLines(refs, dict, news, verb) ==
    IF refs = <<>> THEN <<>>
    ELSE LET ref == Head(refs)
             rest == StationLines(Tail(refs), dict, news, verb)
         IN  IF verb \/ ref \in Range(news)
             THEN <<print_station(ref, dict[ref])>> \o rest
             ELSE rest

RECURSIVE GoneLines(_, _)
GoneLines(refs, alls) ==
    IF refs = <<>> THEN <<>>
    ELSE LET ref == Head(refs)
             rest == GoneLines(Tail(refs), alls)
         IN  IF ref \notin Range(alls)
             THEN <<Line("gone", ref, 0, <<>>, NoData, NoLink)>> \o rest
             ELSE rest

print_stations(verb, qt, dict, news, alls, known) ==
    LET shown == StationLines(SortedSet(DOMAIN dict), dict, news, verb)
        need1 == shown # <<>>
        differ == Cardinality(known) # Len(alls)
        gone  == IF differ THEN GoneLines(SortedSet(known), alls) ELSE <<>>
        sep1  == IF differ /\ need1 THEN <<Blank>> ELSE <<>>
        need2 == IF differ THEN gone # <<>> ELSE need1
        tail  == IF qt THEN <<>>
                 ELSE (IF need2 THEN <<Blank>> ELSE <<>>)
                      \o <<Line("list", <<>>, 0, SortedList(alls), NoData, NoLink)>>
    IN  shown \o sep1 \o gone \o tail

print_stats(qt, dict, news, known, knownDisused) ==
    LET counts == IF qt THEN <<>>
                  ELSE << Line("known", <<>>, Cardinality(known), <<>>, NoData, NoLink),
                          Line("knowndisused", <<>>, Cardinality(knownDisused), <<>>, NoData, NoLink),
                          Line("advertised", <<>>, Cardinality(DOMAIN dict), <<>>, NoData, NoLink) >>
        fresh  == IF news # <<>>
                  THEN <<Line("new", <<>>, Len(news), <<>>, NoData, NoLink)>>
                  ELSE <<>>
        body   == counts \o fresh
    IN  IF body # <<>> THEN body \o <<Blank>> ELSE <<>>

\* ---------------------------------------------------------- process_script
ContainsSettings(script) == \E i \in 1..Len(script) : script[i] \in {PRE, DS}

RECURSIVE StripWrapper(_)
StripWrapper(script) ==
    IF script = <<>> THEN <<>>
    ELSE IF Head(script) = PRE THEN StripWrapper(Tail(script))
    ELSE IF Head(script) = CLOSEW THEN <<CLOSE>> \o StripWrapper(Tail(script))
    ELSE <<Head(script)>> \o StripWrapper(Tail(script))

\* json.loads followed by data['markers'].
JsonLoads(text) ==
    IF text = <<OBJ, CLOSE>> THEN "markers"
    ELSE IF text = <<OBJOTHER, CLOSE>> THEN "KeyError"
    ELSE "JSONDecodeError"

\* ------------------------------------------------------------------- main
Init ==
    /\ pc = "args"
    /\ verbose = FALSE
    /\ quiet = FALSE
    /\ KNOWN_STATIONS \in SUBSET RefPool
    /\ KNOWN_DISUSED_STATIONS \in SUBSET DisusedPool
    /\ stations = <<>>
    /\ new_stations = <<>>
    /\ all_stations = <<>>
    /\ marker = NoMarker
    /\ nmarkers = 0
    /\ nscripts = 0
    /\ located = 0
    /\ out = <<>>
    /\ err = <<>>

\* parse_args and the check that --quiet and --verbose exclude each other.
ParseArgs(v, q) ==
    /\ pc = "args"
    /\ verbose' = v
    /\ quiet' = q
    /\ IF v /\ q
       THEN /\ err' = Append(err, "Error: --quiet and --verbose are mutually exclusive")
            /\ pc' = "exit1"
       ELSE /\ err' = err
            /\ pc' = "download"
    /\ UNCHANGED <<KNOWN_STATIONS, KNOWN_DISUSED_STATIONS, stations, new_stations,
                   all_stations, marker, nmarkers, nscripts, located, out>>

\* download_html returns the page.
Download ==
    /\ pc = "download"
    /\ pc' = "html"
    /\ UNCHANGED <<verbose, quiet, KNOWN_STATIONS, KNOWN_DISUSED_STATIONS, stations,
                   new_stations, all_stations, marker, nmarkers, nscripts, located,
                   out, err>>

\* download_html raises HTTPError or URLError.
DownloadFails(e) ==
    /\ pc = "download"
    /\ err' = Append(err, "Error while downloading the map: " \o e)
    /\ pc' = "exit1"
    /\ UNCHANGED <<verbose, quiet, KNOWN_STATIONS, KNOWN_DISUSED_STATIONS, stations,
                   new_stations, all_stations, marker, nmarkers, nscripts, located, out>>

\* One iteration of process_html's loop, with process_script up to the call
\* of process_markers.
ProcessScript(script) ==
    /\ pc = "html"
    /\ nscripts < MaxScripts
    /\ nscripts' = nscripts + 1
    /\ IF ~ContainsSettings(script)
       THEN /\ pc' = "html"
            /\ UNCHANGED <<located, err>>
       ELSE /\ located' = located + 1
            /\ LET res == JsonLoads(StripWrapper(script))
               IN  IF res = "markers"
                   THEN /\ pc' = "markers"
                        /\ err' = err
                   ELSE /\ pc' = "traceback"
                        /\ err' = Append(err, "Traceback: " \o res)
    /\ UNCHANGED <<verbose, quiet, KNOWN_STATIONS, KNOWN_DISUSED_STATIONS, stations,
                   new_stations, all_stations, marker, nmarkers, out>>

\* One iteration of process_markers' loop.
ProcessMarker(m) ==
    /\ pc = "markers"
    /\ nmarkers < MaxMarkers
    /\ nmarkers' = nmarkers + 1
    /\ marker' = m
    /\ IF Skipped(m)
       THEN UNCHANGED <<pc, stations, all_stations, new_stations, err>>
       ELSE IF TitleRaises(m.title)
       THEN /\ pc' = "traceback"
            /\ err' = Append(err, "Traceback: IndexError")
            /\ UNCHANGED <<stations, all_stations, new_stations>>
       ELSE LET ref == RefOf(m.title)
                data == StationData(m)
            IN  /\ stations' = StoreStation(stations, ref, data)
                /\ IF IsTemporary(ref)
                   THEN UNCHANGED <<all_stations, new_stations>>
                   ELSE /\ all_stations' = Append(all_stations, ref)
                        /\ new_stations' =
                              IF IsNew(ref, data.disused, KNOWN_STATIONS,
                                       KNOWN_DISUSED_STATIONS)
                              THEN Append(new_stations, ref)
                              ELSE new_stations
                /\ UNCHANGED <<pc, err>>
    /\ UNCHANGED <<verbose, quiet, KNOWN_STATIONS, KNOWN_DISUSED_STATIONS, nscripts,
                   located, out>>

\* process_markers' loop ends; process_html goes on with the next script.
EndMarkers ==
    /\ pc = "markers"
    /\ pc' = "html"
    /\ UNCHANGED <<verbose, quiet, KNOWN_STATIONS, KNOWN_DISUSED_STATIONS, stations,
                   new_stations, all_stations, marker, nmarkers, nscripts, located,
                   out, err>>

\* process_html's loop ends.
EndScripts ==
    /\ pc = "html"
    /\ pc' = "stats"
    /\ UNCHANGED <<verbose, quiet, KNOWN_STATIONS, KNOWN_DISUSED_STATIONS, stations,
                   new_stations, all_stations, marker, nmarkers, nscripts, located,
                   out, err>>

PrintStats ==
    /\ pc = "stats"
    /\ out' = out \o print_stats(quiet, stations, new_stations, KNOWN_STATIONS,
                                 KNOWN_DISUSED_STATIONS)
    /\ pc' = "stations"
    /\ UNCHANGED <<verbose, quiet, KNOWN_STATIONS, KNOWN_DISUSED_STATIONS, stations,
                   new_stations, all_stations, marker, nmarkers, nscripts, located, err>>

\* print_stations, then main() returns True.
PrintStations ==
    /\ pc = "stations"
    /\ out' = out \o print_stations(verbose, quiet, stations, new_stations,
                                    all_stations, KNOWN_STATIONS)
    /\ pc' = "exit0"
    /\ UNCHANGED <<verbose, quiet, KNOWN_STATIONS, KNOWN_DISUSED_STATIONS, stations,
                   new_stations, all_stations, marker, nmarkers, nscripts, located, err>>

Next ==
    \/ \E v \in BOOLEAN, q \in BOOLEAN : ParseArgs(v, q)
    \/ Download
    \/ \E e \in {"HTTPError", "URLError"} : DownloadFails(e)
    \/ \E script \in Scripts : ProcessScript(script)
    \/ \E m \in Markers : ProcessMarker(m)
    \/ EndMarkers
    \/ EndScripts
    \/ PrintStats
    \/ PrintStations

Spec == Init /\ [][Next]_vars

\* ================================================================ claims
SentinelRefs == {<<"0", "0", "0", "0">>, <<"0", "9", "9", "7">>, <<"1", "0", "0", "0">>}

\* The last marker read was a station candidate (not a point of interest).
Candidate == nmarkers > 0 /\ ~marker.poi

\* The last marker read has a title of the form "<r> <name>".
Coded(r) ==
    /\ Candidate
    /\ Len(marker.title) >= 5
    /\ marker.title[1] # "-"
    /\ marker.title[5] = " "
    /\ SubSeq(marker.title, 1, 4) = r

Reported == pc \in {"stats", "stations", "exit0"}

IndexErrorRaised == \E i \in 1..Len(err) : err[i] = "Traceback: IndexError"

RECURSIVE GoneRefs(_)
GoneRefs(o) ==
    IF o = <<>> THEN <<>>
    ELSE IF Head(o).k = "gone" THEN <<Head(o).ref>> \o GoneRefs(Tail(o))
    ELSE GoneRefs(Tail(o))

Missing == KNOWN_STATIONS \ Range(all_stations)

\* C1: at the end of a run the references printed as "no longer advertised"
\* are exactly KNOWN_STATIONS minus the advertised references, in ascending
\* order (and none when every known reference was advertised), for every
\* marker sequence.
C1_MissingExact == pc = "exit0" => GoneRefs(out) = SortedSet(Missing)

\* C2: a station candidate whose title has fewer than 5 characters does not
\* fail: it is stored under the sentinel reference with the whole title as
\* its name, it is not advertised, and the run goes on.
C2_ShortTitleIsTemporary ==
    (Candidate /\ Len(marker.title) < 5) =>
        /\ ~IndexErrorRaised
        /\ pc # "traceback"
        /\ Sentinel \in DOMAIN stations
        /\ stations[Sentinel].name = marker.title
        /\ Sentinel \notin Range(all_stations)

\* C3: a reference of KNOWN_STATIONS ingested as disused is in new_stations
\* after the ingest, whatever KNOWN_DISUSED_STATIONS holds.
C3_FlipAlwaysChanged ==
    \A r \in KNOWN_STATIONS :
        (Coded(r) /\ marker.operative # "1") => r \in Range(new_stations)

\* C3 (amended): a non-sentinel reference of KNOWN_STATIONS that is not in
\* KNOWN_DISUSED_STATIONS and is ingested as disused is in new_stations after
\* the ingest.
C3_FlipChangedUnlessKnownDisused ==
    \A r \in KNOWN_STATIONS \ (KNOWN_DISUSED_STATIONS \cup SentinelRefs) :
        (Coded(r) /\ marker.operative # "1") => r \in Range(new_stations)

C3_Witness ==
    /\ Coded(Ref0002)
    /\ marker.operative = "0"
    /\ Ref0002 \in KNOWN_STATIONS
    /\ Ref0001 \in KNOWN_DISUSED_STATIONS
    /\ Ref0002 \in Range(new_stations)

\* C4: once all markers are processed, new_stations holds exactly the
\* non-sentinel references whose final record in stations is active and not
\* known, or disused and not known as disused.
C4_ChangedByFinalRecord ==
    Reported =>
        Range(new_stations) =
            { r \in DOMAIN stations \ SentinelRefs :
                \/ (~stations[r].disused /\ r \notin KNOWN_STATIONS)
                \/ (stations[r].disused /\ r \notin KNOWN_DISUSED_STATIONS) }

\* C5: for a station candidate with a title of at least 5 characters, if the
\* first character is not '-' and the character at index 4 is a space, the
\* record is stored under the first 4 characters with the title from index 5
\* on as its name (digits or not); otherwise it is stored under "0000" with
\* the whole title as its name.
C5_FixedWidthParse ==
    (Candidate /\ Len(marker.title) >= 5) =>
        LET t == marker.title
        IN  IF t[1] # "-" /\ t[5] = " "
            THEN /\ SubSeq(t, 1, 4) \in DOMAIN stations
                 /\ stations[SubSeq(t, 1, 4)].name = SubSeq(t, 6, Len(t))
            ELSE /\ <<"0", "0", "0", "0">> \in DOMAIN stations
                 /\ stations[<<"0", "0", "0", "0">>].name = t

C5_Witness ==
    /\ Candidate
    /\ marker.title = <<"A", "B", " ", "A", " ", "B">>
    /\ <<"A", "B", " ", "A">> \in DOMAIN stations
    /\ stations[<<"A", "B", " ", "A">>].name = <<"B">>
    /\ <<"0", "0", "0", "0">> \in DOMAIN stations

\* C6: all_stations and new_stations never hold "0000", "0997" or "1000",
\* while a marker classified with one of them is stored in stations under it.
C6_SentinelsStoredNotAdvertised ==
    /\ Range(all_stations) \cap SentinelRefs = {}
    /\ Range(new_stations) \cap SentinelRefs = {}
    /\ \A r \in SentinelRefs \ {<<"0", "0", "0", "0">>} :
           Coded(r) =>
               /\ r \in DOMAIN stations
               /\ stations[r].name = SubSeq(marker.title, 6, Len(marker.title))
               /\ stations[r].capacity = marker.total_slots
               /\ stations[r].disused = (marker.operative # "1")
    /\ (Candidate /\ Len(marker.title) >= 5
          /\ (marker.title[1] = "-" \/ marker.title[5] # " ")) =>
               /\ <<"0", "0", "0", "0">> \in DOMAIN stations
               /\ stations[<<"0", "0", "0", "0">>].capacity = marker.total_slots

C6_Witness ==
    /\ Coded(<<"0", "9", "9", "7">>)
    /\ <<"0", "9", "9", "7">> \in DOMAIN stations
    /\ nmarkers = 2
    /\ Len(all_stations) = 1

\* C7: when the payload is malformed (no script with Drupal.settings in the
\* page, or a script that does not parse or has no markers), the run ends in
\* an error and prints no report.
C7_MalformedPayloadFails ==
    LET scriptError ==
            \E i \in 1..Len(err) :
                err[i] \in {"Traceback: JSONDecodeError", "Traceback: KeyError"}
        malformed == (pc = "exit0" /\ located = 0) \/ scriptError
    IN  (pc \in {"exit0", "exit1", "traceback"} /\ malformed) =>
            (pc # "exit0" /\ out = <<>>)

\* C8: in quiet mode every changed station is printed and every known
\* reference that is not advertised is printed as no longer advertised; the
\* counts and the advertised listing are not printed, and a run without a
\* changed and without a missing station prints nothing.
C8_QuietKeepsSignal ==
    (pc = "exit0" /\ quiet) =>
        /\ \A r \in Range(new_stations) :
               \E i \in 1..Len(out) : out[i].k = "station" /\ out[i].ref = r
        /\ \A r \in Missing :
               \E i \in 1..Len(out) : out[i].k = "gone" /\ out[i].ref = r
        /\ \A i \in 1..Len(out) :
               out[i].k \notin {"known", "knowndisused", "advertised", "list"}
        /\ (new_stations = <<>> /\ Missing = {}) => out = <<>>

\* C9: reading a marker flagged as a point of interest leaves stations,
\* all_stations and new_stations unchanged.
C9_PoiIgnored ==
    [][(nmarkers' = nmarkers + 1 /\ marker'.poi) =>
           UNCHANGED <<stations, all_stations, new_stations>>]_vars

C9_Witness ==
    /\ nmarkers = 2
    /\ marker.poi
    /\ marker.title = <<"0", "0", "0", "1", " ", "A">>
    /\ DOMAIN stations = {Ref0002}
    /\ all_stations = <<Ref0002>>

IsPrefix(s, t) == Len(s) <= Len(t) /\ SubSeq(t, 1, Len(s)) = s

Nested ==
    /\ Range(new_stations) \subseteq Range(all_stations)
    /\ Range(all_stations) \subseteq DOMAIN stations

\* C10: every reference of new_stations is in all_stations, every reference
\* of all_stations is a key of stations, and no step removes a key of
\* stations or an element of all_stations or new_stations.
C10_NestedAndGrowing ==
    /\ Nested
    /\ [][/\ Nested'
          /\ DOMAIN stations \subseteq DOMAIN stations'
          /\ IsPrefix(all_stations, all_stations')
          /\ IsPrefix(new_stations, new_stations')]_vars

C10_Witness ==
    /\ Len(all_stations) = 2
    /\ Len(new_stations) = 1
    /\ Cardinality(DOMAIN stations) = 2

====
